---- MODULE Spec2Model ----
(***************************************************************************)
(* npm-audit-action: run(), runNpmAudit() and formatNpmAuditOutput() of    *)
(* src/main.ts as a state machine.                                         *)
(*                                                                         *)
(* Text is a sequence of one-character strings, so that indexOf, slice,    *)
(* startsWith, path resolution and CSS.escape are computed, not assumed.   *)
(* The JSON text printed by the tool is a sequence of symbols: the braces  *)
(* are the characters "{" and "}", every other symbol of a JSON document   *)
(* stands for one member of the document (see JSONParse).                  *)
(***************************************************************************)
EXTENDS Integers, Sequences, FiniteSets, TLC

\* Largest number of entries of the tool's vulnerability mapping.
MaxVulns == 2

----------------------------------------------------------------------------
(* String primitives of the JavaScript runtime *)

RECURSIVE IndexFrom(_, _, _)
IndexFrom(s, c, i) ==
    IF i > Len(s) THEN -1
    ELSE IF s[i] = c THEN i - 1
    ELSE IndexFrom(s, c, i + 1)

\* String.prototype.indexOf: 0-based index of the first c, -1 when absent
indexOf(s, c) == IndexFrom(s, c, 1)

\* String.prototype.slice(start): a negative start counts from the end
slice(s, start) ==
    LET n == Len(s)
        from == IF start < 0
                THEN (IF n + start < 0 THEN 0 ELSE n + start)
                ELSE (IF start > n THEN n ELSE start)
    IN SubSeq(s, from + 1, n)

\* String.prototype.startsWith
startsWith(s, p) == Len(p) <= Len(s) /\ SubSeq(s, 1, Len(p)) = p

Digit == <<"0", "1", "2", "3", "4", "5", "6", "7", "8", "9">>

\* Number -> decimal text, as a template literal prints a non-negative integer
RECURSIVE NumStr(_)
NumStr(n) == IF n < 10 THEN <<Digit[n + 1]>>
             ELSE NumStr(n \div 10) \o <<Digit[(n % 10) + 1]>>

----------------------------------------------------------------------------
(* node:path resolve() on POSIX *)

RECURSIVE SplitPath(_)
SplitPath(s) ==
    IF s = <<>> THEN <<>>
    ELSE LET i == indexOf(s, "/")
         IN IF i = -1 THEN <<s>>
            ELSE <<SubSeq(s, 1, i)>> \o SplitPath(SubSeq(s, i + 2, Len(s)))

RECURSIVE NormalizeSegs(_, _)
NormalizeSegs(segs, acc) ==
    IF segs = <<>> THEN acc
    ELSE LET h == Head(segs)
             t == Tail(segs)
         IN IF h = <<>> \/ h = <<".">> THEN NormalizeSegs(t, acc)
            ELSE IF h = <<".", ".">>
                 THEN NormalizeSegs(t, IF acc = <<>> THEN acc
                                       ELSE SubSeq(acc, 1, Len(acc) - 1))
                 ELSE NormalizeSegs(t, Append(acc, h))

RECURSIVE JoinSegs(_)
JoinSegs(segs) ==
    IF segs = <<>> THEN <<>>
    ELSE <<"/">> \o Head(segs) \o JoinSegs(Tail(segs))

\* The segments of the absolute path that p names when the process is in dir
ResolveSegs(dir, p) ==
    IF p # <<>> /\ p[1] = "/"
    THEN NormalizeSegs(SplitPath(p), <<>>)
    ELSE NormalizeSegs(SplitPath(dir) \o SplitPath(p), <<>>)

\* path.resolve(p) with the process in directory dir
resolvePath(dir, p) ==
    LET segs == ResolveSegs(dir, p)
    IN IF segs = <<>> THEN <<"/">> ELSE JoinSegs(segs)

----------------------------------------------------------------------------
(* css.escape *)

Letters == {"a", "b", "c", "d", "e", "f", "g", "h", "i", "j", "k", "l", "m",
            "n", "o", "p", "q", "r", "s", "t", "u", "v", "w", "x", "y", "z",
            "A", "B", "C", "D", "E", "F", "G", "H", "I", "J", "K", "L", "M",
            "N", "O", "P", "Q", "R", "S", "T", "U", "V", "W", "X", "Y", "Z"}

Digits == {Digit[i] : i \in 1..10}

\* One code unit of CSS.escape(s): s[i] escaped according to its position
EscapeChar(s, i) ==
    LET c == s[i]
    IN IF c \in Digits /\ (i = 1 \/ (i = 2 /\ s[1] = "-"))
       THEN <<"\\", "3", c, " ">>
       ELSE IF i = 1 /\ Len(s) = 1 /\ c = "-" THEN <<"\\", c>>
       ELSE IF c \in Letters \cup Digits \cup {"-", "_"} THEN <<c>>
       ELSE <<"\\", c>>

RECURSIVE EscapeFrom(_, _)
EscapeFrom(s, i) ==
    IF i > Len(s) THEN <<>> ELSE EscapeChar(s, i) \o EscapeFrom(s, i + 1)

CSSEscape(s) == EscapeFrom(s, 1)

----------------------------------------------------------------------------
(* The data model of npm-audit.ts.  A field the JSON may leave out carries a  *)
(* has-flag; fixAvailable keeps the JSON value's kind ("object" is the        *)
(* {name, version, isSemVerMajor} record npm prints for a fix by upgrade).    *)

critical == <<"c", "r", "i", "t", "i", "c", "a", "l">>
moderate == <<"m", "o", "d", "e", "r", "a", "t", "e">>

\* A plain package name in a via list
ViaString(s) ==
    [type |-> "string", str |-> s, title |-> <<>>, severity |-> <<>>,
     score |-> 0, url |-> <<>>]

\* interface VulnerabilityReport; score 0 stands for a report without cvss
VulnerabilityReport(title, severity, score, url) ==
    [type |-> "object", str |-> <<>>, title |-> title, severity |-> severity,
     score |-> score, url |-> url]

\* interface Vulnerability
Vulnerability(name, fixAvailable, hasVia, via, range, nodes) ==
    [name |-> name, fixAvailable |-> fixAvailable, hasVia |-> hasVia,
     via |-> via, range |-> range, nodes |-> nodes]

\* The mapping entries the tool prints, one symbol of the JSON text each
VulnTokens == {"vA", "vC", "vD", "vU", "vM", "vX"}

VulnOf(tok) ==
    CASE tok = "vA" ->
           Vulnerability(<<"a">>, "true", TRUE,
               <<ViaString(<<"c">>),
                 VulnerabilityReport(<<"T", "1">>, critical, 9, <<"u", "1">>),
                 VulnerabilityReport(<<"T", "2">>, moderate, 0, <<"u", "2">>)>>,
               <<"<", "4">>, <<<<"n", "/", "a">>>>)
      [] tok = "vC" ->
           Vulnerability(<<"@", "c">>, "object", TRUE,
               <<ViaString(<<"a">>), ViaString(<<"1", "d">>)>>,
               <<"*">>, <<<<"n", "/", "c">>, <<"n", "/", "a", "/", "c">>>>)
      [] tok = "vD" ->
           Vulnerability(<<"d">>, "true", TRUE,
               <<VulnerabilityReport(<<>>, moderate, 5, <<"u", "3">>),
                 ViaString(<<"a">>)>>,
               <<"<", "2">>, <<<<"n", "/", "d">>>>)
      [] tok = "vU" ->
           Vulnerability(<<"u">>, "false", TRUE,
               <<VulnerabilityReport(<<"T", "4">>, moderate, 6, <<"u", "4">>)>>,
               <<"<", "1">>, <<<<"n", "/", "u">>>>)
      [] tok = "vM" ->
           Vulnerability(<<"m">>, "missing", FALSE, <<>>, <<>>, <<>>)
      [] tok = "vX" ->
           Vulnerability(<<"x">>, "true", FALSE, <<>>, <<>>, <<>>)

\* The metadata member: the total the tool reports in metadata.vulnerabilities
MetaTokens == {"m0", "m1"}

MetaTotalOf(tok) == CASE tok = "m0" -> 0 [] tok = "m1" -> 1

isFixable(data) == data.fixAvailable \in {"true", "object"}

isReport(data) == data.type = "object" /\ data.title # <<>>

----------------------------------------------------------------------------
(* JSON.parse on the symbols of the tool's output.                           *)
(*   "{" "}"                       the empty object                          *)
(*   "1"                           the number 1                              *)
(*   "{" "V" "{" v.. "}" m "}"     an NPMAudit: "V" is the key               *)
(*                                 "vulnerabilities", each v one entry of    *)
(*                                 the mapping, m the metadata member        *)
(*   "{" "F" <NPMAudit> "}"        an NPMAuditFix: "F" is the added/removed/ *)
(*                                 changed/audited counts and the key        *)
(*                                 "audit"                                   *)

AuditText(vtoks, meta) == <<"{", "V", "{">> \o vtoks \o <<"}", meta, "}">>

FixText(vtoks, meta) == <<"{", "F">> \o AuditText(vtoks, meta) \o <<"}">>

IsAuditText(s) ==
    /\ Len(s) >= 6
    /\ SubSeq(s, 1, 3) = <<"{", "V", "{">>
    /\ s[Len(s)] = "}"
    /\ s[Len(s) - 1] \in MetaTokens
    /\ s[Len(s) - 2] = "}"
    /\ \A i \in 4..(Len(s) - 3) : s[i] \in VulnTokens

AuditTextEntries(s) == [i \in 1..(Len(s) - 6) |-> VulnOf(s[i + 3])]

NoValue ==
    [ok |-> FALSE, isObject |-> FALSE, hasAudit |-> FALSE,
     hasVulnerabilities |-> FALSE, vulnerabilities |-> <<>>, metaTotal |-> 0,
     auditVulnerabilities |-> <<>>, auditMetaTotal |-> 0]

JSONParse(s) ==
    IF s = <<"1">> THEN [NoValue EXCEPT !.ok = TRUE]
    ELSE IF s = <<"{", "}">> THEN [NoValue EXCEPT !.ok = TRUE, !.isObject = TRUE]
    ELSE IF IsAuditText(s)
    THEN [NoValue EXCEPT !.ok = TRUE, !.isObject = TRUE,
                         !.hasVulnerabilities = TRUE,
                         !.vulnerabilities = AuditTextEntries(s),
                         !.metaTotal = MetaTotalOf(s[Len(s) - 1])]
    ELSE IF /\ Len(s) >= 9
            /\ SubSeq(s, 1, 2) = <<"{", "F">>
            /\ s[Len(s)] = "}"
            /\ IsAuditText(SubSeq(s, 3, Len(s) - 1))
    THEN LET a == SubSeq(s, 3, Len(s) - 1)
         IN [NoValue EXCEPT !.ok = TRUE, !.isObject = TRUE, !.hasAudit = TRUE,
                            !.auditVulnerabilities = AuditTextEntries(a),
                            !.auditMetaTotal = MetaTotalOf(a[Len(a) - 1])]
    ELSE NoValue

\* const isNPMAuditFix = (data) => 'audit' in data
isNPMAuditFix(data) == data.hasAudit

\* data = data.audit
AuditOf(data) ==
    [data EXCEPT !.hasAudit = FALSE, !.hasVulnerabilities = TRUE,
                 !.vulnerabilities = data.auditVulnerabilities,
                 !.metaTotal = data.auditMetaTotal,
                 !.auditVulnerabilities = <<>>, !.auditMetaTotal = 0]

----------------------------------------------------------------------------
(* formatNpmAuditOutput.  The Markdown text is the sequence of the pieces    *)
(* the code appends, each a template with the values it interpolates.        *)

Chunk(t, a) == [t |-> t, a |-> a]

Heading == Chunk("# Audit report\n", <<>>)

fixableOf(data) == SelectSeq(data.vulnerabilities, isFixable)

InfoLine(data) ==
    Chunk("Found % fixable issues", <<NumStr(Len(fixableOf(data)))>>)

\* The report of the first branch with the fixable count in place of the total
NoFixableReportCountsFixable(data) ==
    <<Heading,
      Chunk("No fixable problems found (% unfixable)",
            <<NumStr(Len(fixableOf(data)))>>)>>

NoFixableReport(data) ==
    <<Heading,
      Chunk("No fixable problems found (% unfixable)",
            <<NumStr(Len(data.vulnerabilities))>>)>>

Summary(data) ==
    Chunk("\nThis audit fix resolves % of the total % vulnerabilities found in your project.\n\n## Updated dependencies\n",
          <<NumStr(Len(fixableOf(data))), NumStr(Len(data.vulnerabilities))>>)

DependencyLink(vul) ==
    Chunk("* [%](#user-content-%)\n", <<vul.name, CSSEscape(vul.name)>>)

FixedHeading == Chunk("## Fixed vulnerabilities\n", <<>>)

SectionHeading(vul) ==
    Chunk("\n### % <a href=\"#user-content-%\" id=\"%\">#</a>\n",
          <<vul.name, CSSEscape(vul.name), CSSEscape(vul.name)>>)

\* Array.prototype.find(isReport): index of the first report, 0 when none
FindReport(via) ==
    IF \E i \in 1..Len(via) : isReport(via[i])
    THEN CHOOSE i \in 1..Len(via) :
            isReport(via[i]) /\ \A j \in 1..(i - 1) : ~isReport(via[j])
    ELSE 0

ObjectString == <<"[", "o", "b", "j", "e", "c", "t", " ",
                  "O", "b", "j", "e", "c", "t", "]">>

\* `${via}`: a string prints itself, any other object "[object Object]"
ToText(via) == IF via.type = "string" THEN via.str ELSE ObjectString

ReportLines(info) ==
    LET cvss == IF info.score # 0
                THEN <<" ", "(", "C", "V", "S", "S", " ">> \o NumStr(info.score)
                     \o <<")">>
                ELSE <<>>
        glyph == IF info.severity = critical THEN <<" ", "U+1F6A8">> ELSE <<>>
    IN <<Chunk("* %\n", <<info.title>>),
         Chunk("* Severity: **%**%%\n", <<info.severity, glyph, cvss>>),
         Chunk("* Reference: [%](%)\n", <<info.url, info.url>>)>>

CausedByHeading == Chunk("* Caused by vulnerable dependency:\n", <<>>)

CausedByBullet(via) ==
    Chunk("  * [%](#user-content-%)\n", <<ToText(via), CSSEscape(ToText(via))>>)

CausedByLines(vul) ==
    <<CausedByHeading>> \o [i \in 1..Len(vul.via) |-> CausedByBullet(vul.via[i])]

\* A value between two backquotes (U+0060), Markdown's inline code
CodeSpan(s) == <<"U+0060">> \o s \o <<"U+0060">>

Section(vul) ==
    LET info == FindReport(vul.via)
    IN <<SectionHeading(vul)>>
       \o (IF info # 0 THEN ReportLines(vul.via[info]) ELSE CausedByLines(vul))
       \o <<Chunk("* Affected versions: %\n", <<vul.range>>),
            Chunk("* Package usage:\n", <<>>)>>
       \o [i \in 1..Len(vul.nodes) |-> Chunk("  * %\n", <<CodeSpan(vul.nodes[i])>>)]

RECURSIVE Sections(_)
Sections(vuls) ==
    IF vuls = <<>> THEN <<>> ELSE Section(Head(vuls)) \o Sections(Tail(vuls))

\* The local variable output when the second loop has ended
FullReport(data) ==
    LET fixable == fixableOf(data)
    IN <<Heading, Summary(data)>>
       \o [i \in 1..Len(fixable) |-> DependencyLink(fixable[i])]
       \o <<FixedHeading>>
       \o Sections(fixable)

\* vul.via.find(...) on a vulnerability without a via list throws a TypeError
FormatThrows(data) ==
    \E i \in 1..Len(data.vulnerabilities) :
        isFixable(data.vulnerabilities[i]) /\ ~data.vulnerabilities[i].hasVia

\* What the promise returned by formatNpmAuditOutput(data) settles with, the
\* line logged with core.info, and the local variable output at the end.
\* A function body that ends without a return statement returns undefined.
formatNpmAuditOutput(data) ==
    IF Len(fixableOf(data)) = 0
    THEN [state |-> "resolved", isString |-> TRUE,
          value |-> NoFixableReport(data), output |-> <<Heading>>,
          error |-> ""]
    ELSE IF FormatThrows(data)
    THEN [state |-> "rejected", isString |-> FALSE, value |-> <<>>,
          output |-> <<>>,
          error |-> "TypeError: Cannot read properties of undefined"]
    ELSE [state |-> "resolved", isString |-> FALSE, value |-> <<>>,
          output |-> FullReport(data), error |-> ""]

----------------------------------------------------------------------------
(* The environment of one run of the action *)

\* process.env.GITHUB_WORKSPACE; the runner starts the process there
GITHUB_WORKSPACE == <<"/", "w">>

\* Values of the input "working-directory" ("" when not configured)
WorkingDirectories == {<<>>, <<"s">>}

\* Values of the input "output-path" ("" when not configured): a relative
\* path, a path in a sibling directory whose name starts like the workspace's,
\* a path elsewhere, and a relative path that climbs out of the directory
OutputPaths ==
    {<<>>, <<"o">>, <<"/", "w", "x", "/", "o">>, <<"/", "e">>,
     <<".", ".", "/", "o">>}

\* The outputs action.yml and the README declare
OutputNames ==
    {"markdown", "issues-fixed", "issues-fixable", "issues-unfixable",
     "issues-total"}

Injective(s) == \A i, j \in 1..Len(s) : s[i] = s[j] => i = j

\* The mappings the tool can print: keys are unique, at most MaxVulns entries
VulnSeqs ==
    {s \in UNION {[1..n -> VulnTokens] : n \in 0..MaxVulns} : Injective(s)}

\* Progress lines before the JSON ("add foo 6.5.4 -> 6.5.5\n")
Preambles == {<<>>, <<"a", "\n">>}

\* What `npm audit --json` prints: an NPMAudit
AuditTexts == {AuditText(v, m) : v \in VulnSeqs, m \in MetaTokens}

\* What `npm audit --json fix` prints: an NPMAuditFix
FixTexts == {FixText(v, m) : v \in VulnSeqs, m \in MetaTokens}

\* Output that is not a report: nothing, text only, text ending in a digit,
\* the empty object, an unfinished object
OtherTexts ==
    {<<>>, <<"a">>, <<"a", "1">>, <<"{", "}">>, <<"a", "\n", "{">>}

AuditStdouts == {p \o t : p \in Preambles, t \in AuditTexts} \cup OtherTexts

FixStdouts == {p \o t : p \in Preambles, t \in FixTexts} \cup OtherTexts

\* The stdout the tool can end with when it reports no error
Stdouts(fixMode) == IF fixMode THEN FixStdouts ELSE AuditStdouts

Stderrs == {<<>>, <<"n", "o", "t", "e">>}

\* error.message of the ExecException; "" stands for error === null
ExecErrors == {"", "Command failed: npm audit"}

----------------------------------------------------------------------------
VARIABLES
    pc,               \* where run() is: start, exec, audited, formatted,
                      \* writing, done
    fix,              \* input "fix"
    outputPath,       \* input "output-path"
    workingDirectory, \* input "working-directory"
    cwd,              \* the process's working directory
    execCalls,        \* the commands given to exec, in order
    execResult,       \* what exec called back with
    auditPromise,     \* the promise runNpmAudit returned
    debugLog,         \* core.debug lines
    infoLog,          \* core.info lines
    data,             \* the NPMAudit run() counts and formats
    formatPromise,    \* the promise formatNpmAuditOutput returned
    outputs,          \* core.setOutput values
    failed,           \* core.setFailed messages, in order
    writeCalls,       \* writeFile calls, in order
    files,            \* files written
    events            \* the order of the side effects of the run

vars ==
    <<pc, fix, outputPath, workingDirectory, cwd, execCalls, execResult,
      auditPromise, debugLog, infoLog, data, formatPromise, outputs, failed,
      writeCalls, files, events>>

Unset == [kind |-> "unset", n |-> 0, s |-> <<>>]

NumberValue(n) == [kind |-> "number", n |-> n, s |-> <<>>]

\* The value of a settled formatNpmAuditOutput promise as an output value
TextValue(p) ==
    IF p.isString THEN [kind |-> "string", n |-> 0, s |-> p.value]
    ELSE [kind |-> "undefined", n |-> 0, s |-> <<>>]

Pending ==
    [state |-> "pending", isString |-> FALSE, value |-> <<>>,
     output |-> <<>>, error |-> ""]

Init ==
    /\ pc = "start"
    /\ fix \in BOOLEAN
    /\ outputPath \in OutputPaths
    /\ workingDirectory \in WorkingDirectories
    /\ cwd = GITHUB_WORKSPACE
    /\ execCalls = <<>>
    /\ execResult = [called |-> FALSE, error |-> "", stdout |-> <<>>,
                     stderr |-> <<>>]
    /\ auditPromise = [state |-> "pending", value |-> <<>>, error |-> ""]
    /\ debugLog = <<>>
    /\ infoLog = <<>>
    /\ data = NoValue
    /\ formatPromise = Pending
    /\ outputs = [o \in OutputNames |-> Unset]
    /\ failed = <<>>
    /\ writeCalls = <<>>
    /\ files = {}
    /\ events = <<>>

----------------------------------------------------------------------------
(* runNpmAudit *)

\* `npm audit --json ${fix ? 'fix' : ''}`
Command(f) == Chunk("npm audit --json %", <<IF f THEN <<"f", "i", "x">> ELSE <<>>>>)

\* core.debug(`Running npm audit ${fix ? 'fix' : ''}...`)
RunningLine(f) ==
    Chunk("Running npm audit %...", <<IF f THEN <<"f", "i", "x">> ELSE <<>>>>)

\* if (stderr) core.debug(`[npm audit]: ${stderr}`)
StderrDebug(log, stderr) ==
    IF stderr # <<>> THEN Append(log, Chunk("[npm audit]: %", <<stderr>>))
    ELSE log

\* resolve(stdout): the output as the tool printed it
StripNothing(stdout) == stdout

\* stdout.slice(stdout.indexOf('{'))
StripPreamble(stdout) == slice(stdout, indexOf(stdout, "{"))

\* The callback without its error branch
SettleIgnoringError(error, stdout) ==
    [state |-> "resolved", value |-> slice(stdout, indexOf(stdout, "{")),
     error |-> ""]

\* if (error) { reject(error); return }  resolve(...)
SettleAudit(error, stdout) ==
    IF error # ""
    THEN [state |-> "rejected", value |-> <<>>, error |-> error]
    ELSE [state |-> "resolved", value |-> StripPreamble(stdout), error |-> ""]

\* The callback exec calls when the tool has ended
ExecCallback(error, stdout, stderr) ==
    /\ pc = "exec"
    /\ execResult' = [called |-> TRUE, error |-> error, stdout |-> stdout,
                      stderr |-> stderr]
    /\ debugLog' = StderrDebug(debugLog, stderr)
    /\ auditPromise' = SettleAudit(error, stdout)
    /\ events' = events
                 \o (IF debugLog' # debugLog THEN <<"debug:npm-audit">> ELSE <<>>)
                 \o <<auditPromise'.state>>
    /\ pc' = "audited"
    /\ UNCHANGED <<fix, outputPath, workingDirectory, cwd, execCalls, infoLog,
                   data, formatPromise, outputs, failed, writeCalls, files>>

----------------------------------------------------------------------------
(* run *)

\* An empty catch block
CatchSwallows(log, message) == log

\* catch (error) { core.setFailed(error.message) }
CatchFailed(log, message) == Append(log, message)

\* run() up to `await runNpmAudit(fix)`: the inputs, chdir, and runNpmAudit
\* up to the call of exec.  chdirOk: the directory exists and can be entered.
RunStart(chdirOk) ==
    /\ pc = "start"
    /\ LET wd == IF workingDirectory # <<>> THEN workingDirectory
                 ELSE GITHUB_WORKSPACE
           resolvedWD == resolvePath(cwd, wd)
           line == Chunk("Setting working directory to \"%\".", <<resolvedWD>>)
       IN IF chdirOk
          THEN /\ cwd' = resolvedWD
               /\ debugLog' = debugLog \o <<line, RunningLine(fix)>>
               /\ execCalls' = Append(execCalls, Command(fix))
               /\ events' = Append(events, "exec")
               /\ pc' = "exec"
               /\ UNCHANGED failed
          ELSE /\ debugLog' = Append(debugLog, line)
               /\ failed' = CatchFailed(failed, "ENOENT: no such file or directory, chdir")
               /\ events' = Append(events, "setFailed")
               /\ pc' = "done"
               /\ UNCHANGED <<cwd, execCalls>>
    /\ UNCHANGED <<fix, outputPath, workingDirectory, execResult, auditPromise,
                   infoLog, data, formatPromise, outputs, writeCalls, files>>

\* The four core.info lines about an NPMAuditFix (its counts are in "F")
FixInfoLines ==
    <<Chunk("[npm audit] Added   % packages", <<<<"1">>>>),
      Chunk("[npm audit] Removed % packages", <<<<"0">>>>),
      Chunk("[npm audit] Changed % packages", <<<<"2">>>>),
      Chunk("[npm audit] Audited % packages", <<<<"9">>>>)>>

\* The total as the tool's metadata reports it
totalFromMetadata(d) == d.metaTotal

totalIssues(d) == Len(d.vulnerabilities)

fixableIssues(d) == Len(SelectSeq(d.vulnerabilities, isFixable))

\* The three core.setOutput calls of the counters
CounterOutputs(o, d) ==
    [o EXCEPT !["issues-total"] = NumberValue(totalIssues(d)),
              !["issues-fixable"] = NumberValue(fixableIssues(d)),
              !["issues-unfixable"] =
                  NumberValue(totalIssues(d) - fixableIssues(d))]

\* Why JSON.parse ... Object.values(data.vulnerabilities) throws on this text,
\* "" when it does not
ParseError(text) ==
    LET parsed == JSONParse(text)
    IN IF ~parsed.ok THEN "SyntaxError: Unexpected token in JSON"
       ELSE IF ~parsed.isObject
       THEN "TypeError: Cannot use 'in' operator to search for 'audit'"
       ELSE IF ~parsed.hasAudit /\ ~parsed.hasVulnerabilities
       THEN "TypeError: Cannot convert undefined or null to object"
       ELSE ""

\* run() from the settling of runNpmAudit's promise to
\* `await formatNpmAuditOutput(data)`; the body of formatNpmAuditOutput has no
\* await, so it runs to its end within this step.
RunAfterAudit ==
    /\ pc = "audited"
    /\ IF auditPromise.state = "rejected"
       THEN /\ failed' = CatchFailed(failed, auditPromise.error)
            /\ events' = Append(events, "setFailed")
            /\ pc' = "done"
            /\ UNCHANGED <<infoLog, data, formatPromise, outputs>>
       ELSE IF ParseError(auditPromise.value) # ""
       THEN /\ failed' = CatchFailed(failed, ParseError(auditPromise.value))
            /\ events' = Append(events, "setFailed")
            /\ pc' = "done"
            /\ UNCHANGED <<infoLog, data, formatPromise, outputs>>
       ELSE LET parsed == JSONParse(auditPromise.value)
                audit == IF isNPMAuditFix(parsed) THEN AuditOf(parsed)
                         ELSE parsed
            IN /\ data' = audit
               /\ outputs' = CounterOutputs(outputs, audit)
               /\ formatPromise' = formatNpmAuditOutput(audit)
               /\ infoLog' = infoLog
                             \o (IF isNPMAuditFix(parsed) THEN FixInfoLines
                                 ELSE <<>>)
                             \o <<InfoLine(audit)>>
               /\ events' = events \o <<"setOutput:issues-total",
                                        "setOutput:issues-fixable",
                                        "setOutput:issues-unfixable",
                                        "info:found">>
               /\ pc' = "formatted"
               /\ UNCHANGED failed
    /\ UNCHANGED <<fix, outputPath, workingDirectory, cwd, execCalls,
                   execResult, auditPromise, debugLog, writeCalls, files>>

\* !resolvedPath.startsWith(resolvePath(process.env.GITHUB_WORKSPACE))
InvalidOutputPath(dir, path) ==
    ~startsWith(resolvePath(dir, path), resolvePath(dir, GITHUB_WORKSPACE))

\* run() from the settling of formatNpmAuditOutput's promise to
\* `await writeFile(...)` or to its end
RunAfterFormat ==
    /\ pc = "formatted"
    /\ IF formatPromise.state = "rejected"
       THEN /\ failed' = CatchFailed(failed, formatPromise.error)
            /\ events' = Append(events, "setFailed")
            /\ pc' = "done"
            /\ UNCHANGED <<outputs, writeCalls>>
       ELSE /\ outputs' = [outputs EXCEPT !["markdown"] = TextValue(formatPromise)]
            /\ IF outputPath = <<>>
               THEN /\ events' = Append(events, "setOutput:markdown")
                    /\ pc' = "done"
                    /\ UNCHANGED <<failed, writeCalls>>
               ELSE IF InvalidOutputPath(cwd, outputPath)
               THEN /\ failed' = Append(failed, "Invalid \"output-path\"")
                    /\ events' = events \o <<"setOutput:markdown", "setFailed">>
                    /\ pc' = "done"
                    /\ UNCHANGED writeCalls
               ELSE /\ writeCalls' =
                           Append(writeCalls,
                                  [path |-> resolvePath(cwd, outputPath),
                                   content |-> TextValue(formatPromise)])
                    /\ events' = events \o <<"setOutput:markdown", "writeFile">>
                    /\ pc' = "writing"
                    /\ UNCHANGED failed
    /\ UNCHANGED <<fix, outputPath, workingDirectory, cwd, execCalls,
                   execResult, auditPromise, debugLog, infoLog, data,
                   formatPromise, files>>

\* run() from the settling of writeFile's promise to its end.  writeFile
\* rejects data that is no string before it opens the file; diskOk: the file
\* can be opened and written.
WriteFileSettled(diskOk) ==
    /\ pc = "writing"
    /\ LET call == writeCalls[Len(writeCalls)]
       IN IF call.content.kind # "string"
          THEN /\ failed' = CatchFailed(failed,
                     "TypeError: The \"data\" argument must be of type string")
               /\ events' = Append(events, "setFailed")
               /\ UNCHANGED files
          ELSE IF ~diskOk
          THEN /\ failed' = CatchFailed(failed, "EACCES: permission denied, open")
               /\ events' = Append(events, "setFailed")
               /\ UNCHANGED files
          ELSE /\ files' = {f \in files : f.path # call.path}
                           \cup {[path |-> call.path, content |-> call.content.s]}
               /\ events' = Append(events, "written")
               /\ UNCHANGED failed
    /\ pc' = "done"
    /\ UNCHANGED <<fix, outputPath, workingDirectory, cwd, execCalls,
                   execResult, auditPromise, debugLog, infoLog, data,
                   formatPromise, outputs, writeCalls>>

Next ==
    \/ \E chdirOk \in BOOLEAN : RunStart(chdirOk)
    \/ /\ pc = "exec"
       /\ \E error \in ExecErrors, stderr \in Stderrs :
            \E stdout \in (IF error = "" THEN Stdouts(fix)
                           ELSE {<<>>, AuditText(<<>>, "m1")}) :
               ExecCallback(error, stdout, stderr)
    \/ RunAfterAudit
    \/ RunAfterFormat
    \/ \E diskOk \in BOOLEAN : WriteFileSettled(diskOk)

Spec == Init /\ [][Next]_vars

----------------------------------------------------------------------------
(* Properties *)

\* The run has called formatNpmAuditOutput(data) and its promise has settled
Formatted == formatPromise.state # "pending"

\* Every entry has the fields interface Vulnerability declares
WellFormed(d) ==
    \A i \in 1..Len(d.vulnerabilities) : d.vulnerabilities[i].hasVia

FixableIndices(d) ==
    {i \in 1..Len(d.vulnerabilities) :
        d.vulnerabilities[i].fixAvailable \in {"true", "object"}}

IsLink(c) == c.t = "* [%](#user-content-%)\n"

IsSectionHeading(c) == c.t = "\n### % <a href=\"#user-content-%\" id=\"%\">#</a>\n"

IsCausedBy(c) == c.t = "* Caused by vulnerable dependency:\n"

IsBullet(c) == c.t = "  * [%](#user-content-%)\n"

IsString(v) == v.type = "string"

IsStructuredReport(v) == v.type = "object" /\ v.title # <<>>

\* The first value each chunk of sel interpolates: the name it shows
Names(sel) == [i \in 1..Len(sel) |-> sel[i].a[1]]

\* The names of the fixable entries of d, in mapping order
FixableNames(d) ==
    LET Fix(v) == v.fixAvailable \in {"true", "object"}
        sel == SelectSeq(d.vulnerabilities, Fix)
    IN [i \in 1..Len(sel) |-> sel[i].name]

\* C1: for an AuditResult with at least one fixable vulnerability,
\* formatNpmAuditOutput returns a Markdown string, never undefined: it starts
\* with the heading '# Audit report', has the summary line with F (fixable
\* entries) and T (mapping size), one 'Updated dependencies' link and one
\* 'Fixed vulnerabilities' section per fixable vulnerability in mapping order;
\* run() exposes that string as the output 'markdown'.
C1_FormatReturnsReport ==
    (Formatted /\ WellFormed(data) /\ FixableIndices(data) # {}) =>
        /\ formatPromise.state = "resolved"
        /\ formatPromise.isString
        /\ Len(formatPromise.value) >= 2
        /\ formatPromise.value[1] = Chunk("# Audit report\n", <<>>)
        /\ formatPromise.value[2].a =
              <<NumStr(Cardinality(FixableIndices(data))),
                NumStr(Len(data.vulnerabilities))>>
        /\ Names(SelectSeq(formatPromise.value, IsLink)) = FixableNames(data)
        /\ Names(SelectSeq(formatPromise.value, IsSectionHeading)) = FixableNames(data)
        /\ (outputs["markdown"].kind # "unset" =>
               /\ outputs["markdown"].kind = "string"
               /\ outputs["markdown"].s = formatPromise.value)

\* C2: for an AuditResult in which no vulnerability is fixable (the empty
\* mapping included), formatNpmAuditOutput logs 'Found 0 fixable issues' and
\* returns exactly '# Audit report\nNo fixable problems found (N unfixable)',
\* N the size of the mapping, and nothing more.
C2_NoFixableReport ==
    (Formatted /\ FixableIndices(data) = {}) =>
        /\ formatPromise.state = "resolved"
        /\ formatPromise.isString
        /\ formatPromise.value =
              <<Chunk("# Audit report\n", <<>>),
                Chunk("No fixable problems found (% unfixable)",
                      <<NumStr(Len(data.vulnerabilities))>>)>>
        /\ infoLog # <<>>
        /\ infoLog[Len(infoLog)] = Chunk("Found % fixable issues", <<<<"0">>>>)

\* C2 witness: two unfixable entries, one with fixAvailable false and one
\* without the field, have been formatted
C2_Witness ==
    /\ Formatted
    /\ Len(data.vulnerabilities) = 2
    /\ FixableIndices(data) = {}
    /\ \E i \in 1..2 : data.vulnerabilities[i].fixAvailable = "missing"

\* Containment by path segments: p is dir itself or a descendant of dir
IsWithin(p, dir) ==
    LET ps == NormalizeSegs(SplitPath(p), <<>>)
        ds == NormalizeSegs(SplitPath(dir), <<>>)
    IN Len(ds) <= Len(ps) /\ SubSeq(ps, 1, Len(ds)) = ds

\* run() has reached the check of a configured output-path
OutputPathChecked == outputPath # <<>> /\ outputs["markdown"].kind # "unset"

\* C3: if the resolved output-path is not the workspace root W or a descendant
\* of W, by path segments, run() marks the run failed with 'Invalid
\* "output-path"' and never calls writeFile; a file is written only at a path
\* contained in W.
C3_OutputPathContained ==
    /\ \A i \in 1..Len(writeCalls) : IsWithin(writeCalls[i].path, GITHUB_WORKSPACE)
    /\ \A f \in files : IsWithin(f.path, GITHUB_WORKSPACE)
    /\ (OutputPathChecked
        /\ ~IsWithin(resolvePath(cwd, outputPath), GITHUB_WORKSPACE)) =>
            /\ failed = <<"Invalid \"output-path\"">>
            /\ writeCalls = <<>>

HasBrace(s) == \E i \in 1..Len(s) : s[i] = "{"

\* C4: when the tool succeeds and its stdout has no '{', runNpmAudit resolves
\* with the whole stdout unchanged, the empty string and strings longer than
\* one character included.
C4_NoBraceUnchanged ==
    (execResult.called /\ execResult.error = "" /\ ~HasBrace(execResult.stdout)) =>
        /\ auditPromise.state = "resolved"
        /\ auditPromise.value = execResult.stdout

\* C5: when the tool succeeds and its stdout has a '{', runNpmAudit resolves
\* with exactly the suffix of stdout that begins at the first '{', whatever
\* the fix flag.
C5_SuffixFromFirstBrace ==
    (execResult.called /\ execResult.error = "" /\ HasBrace(execResult.stdout)) =>
        LET out == execResult.stdout
            first == CHOOSE i \in 1..Len(out) :
                        out[i] = "{" /\ \A j \in 1..(i - 1) : out[j] # "{"
        IN /\ auditPromise.state = "resolved"
           /\ auditPromise.value = [i \in 1..(Len(out) - first + 1) |-> out[first + i - 1]]

\* C5 witness: progress lines before a report with a nested brace were
\* stripped in fix mode
C5_Witness ==
    /\ fix
    /\ auditPromise.state = "resolved"
    /\ HasBrace(execResult.stdout)
    /\ execResult.stdout[1] # "{"
    /\ Len(auditPromise.value) > 6
    /\ Len(auditPromise.value) < Len(execResult.stdout)

\* C6: the three counters run() exposes satisfy issues-total = issues-fixable
\* + issues-unfixable, issues-total is the size of the vulnerability mapping,
\* issues-fixable the number of entries with a truthy fixAvailable, whatever
\* the metadata says, for a bare NPMAudit and for one unwrapped from an
\* NPMAuditFix.
C6_Counters ==
    outputs["issues-total"].kind # "unset" =>
        /\ \A o \in {"issues-total", "issues-fixable", "issues-unfixable"} :
              outputs[o].kind = "number"
        /\ outputs["issues-total"].n =
              outputs["issues-fixable"].n + outputs["issues-unfixable"].n
        /\ outputs["issues-total"].n = Len(data.vulnerabilities)
        /\ outputs["issues-fixable"].n = Cardinality(FixableIndices(data))
        /\ data.vulnerabilities =
              [i \in 1..Len(data.vulnerabilities) |->
                  VulnOf(SelectSeq(auditPromise.value,
                                   LAMBDA t : t \in VulnTokens)[i])]

\* C6 witness: counters set from an unwrapped NPMAuditFix whose metadata total
\* differs from the size of its mapping, with fixable and unfixable entries
C6_Witness ==
    /\ outputs["issues-total"].kind = "number"
    /\ fix
    /\ auditPromise.value[2] = "F"
    /\ data.metaTotal # Len(data.vulnerabilities)
    /\ outputs["issues-fixable"].n = 1
    /\ outputs["issues-unfixable"].n = 1

IsStderrLine(c) == c.t = "[npm audit]: %"

\* The position of the first e in the order of side effects, 0 when absent
EventIndex(e) ==
    IF \E i \in 1..Len(events) : events[i] = e
    THEN CHOOSE i \in 1..Len(events) :
            events[i] = e /\ \A j \in 1..(i - 1) : events[j] # e
    ELSE 0

\* C7: one call of runNpmAudit invokes the tool exactly once; a non-empty
\* stderr is logged at debug level as '[npm audit]: ' and the text, before
\* the promise settles, on success and on failure; when the tool reports an
\* error the promise rejects with that error and is never resolved.
C7_ExecOnceLogReject ==
    /\ Len(execCalls) <= 1
    /\ execResult.called =>
        /\ Len(execCalls) = 1
        /\ SelectSeq(debugLog, IsStderrLine) =
              (IF execResult.stderr # <<>>
               THEN <<Chunk("[npm audit]: %", <<execResult.stderr>>)>>
               ELSE <<>>)
        /\ execResult.stderr # <<>> =>
              /\ EventIndex("debug:npm-audit") > 0
              /\ \A i \in 1..Len(events) :
                    events[i] \in {"resolved", "rejected"} =>
                        EventIndex("debug:npm-audit") < i
        /\ execResult.error # "" =>
              /\ auditPromise.state = "rejected"
              /\ auditPromise.error = execResult.error
              /\ EventIndex("resolved") = 0
        /\ execResult.error = "" => auditPromise.state = "resolved"

\* C7 witness: the tool failed after printing to stderr and to stdout
C7_Witness ==
    /\ execResult.called
    /\ execResult.error # ""
    /\ execResult.stderr # <<>>
    /\ execResult.stdout # <<>>

\* C8: when run() completes successfully with fix not false, the output
\* 'issues-fixed' is set and equals 'issues-fixable'; with fix false it is
\* not set.
C8_IssuesFixed ==
    (pc = "done" /\ failed = <<>>) =>
        IF fix
        THEN /\ outputs["issues-fixed"].kind = "number"
             /\ outputs["issues-fixed"].n = outputs["issues-fixable"].n
        ELSE outputs["issues-fixed"].kind = "unset"

AllUnset(names) == \A o \in names : outputs[o].kind = "unset"

WriteErrors ==
    {"TypeError: The \"data\" argument must be of type string",
     "EACCES: permission denied, open"}

\* C9: if a step of run() fails (the tool, JSON.parse of its text,
\* formatting, writeFile), the run is marked failed exactly once, with that
\* failure's message, and after the failure no output is set and no file is
\* written.
C9_FailedOnce ==
    /\ Len(failed) <= 1
    /\ \A i \in 1..Len(events) : events[i] = "setFailed" => i = Len(events)
    /\ failed # <<>> => pc = "done"
    /\ (pc = "done" /\ auditPromise.state = "rejected") =>
          /\ failed = <<execResult.error>>
          /\ AllUnset(OutputNames)
          /\ writeCalls = <<>> /\ files = {}
    /\ (pc = "done" /\ auditPromise.state = "resolved"
        /\ ~JSONParse(auditPromise.value).ok) =>
          /\ failed = <<"SyntaxError: Unexpected token in JSON">>
          /\ AllUnset(OutputNames)
          /\ writeCalls = <<>> /\ files = {}
    /\ (pc = "done" /\ formatPromise.state = "rejected") =>
          /\ failed = <<formatPromise.error>>
          /\ outputs["markdown"].kind = "unset"
          /\ writeCalls = <<>> /\ files = {}
    /\ (pc = "done" /\ writeCalls # <<>> /\ files = {}) =>
          /\ Len(failed) = 1
          /\ failed[1] \in WriteErrors
    /\ (pc = "done" /\ files # {}) => failed = <<>>

\* C9 witness: writeFile was called with the report and could not write it
C9_Witness ==
    /\ pc = "done"
    /\ Len(writeCalls) = 1
    /\ writeCalls[1].content.kind = "string"
    /\ files = {}
    /\ failed = <<"EACCES: permission denied, open">>

\* The indices of the section headings of a report, and its k-th section:
\* the chunks after the k-th heading up to the next heading
HeadingIndices(text) == {i \in 1..Len(text) : IsSectionHeading(text[i])}

SectionOf(text, k) ==
    LET idx == HeadingIndices(text)
        start == CHOOSE i \in idx : Cardinality({j \in idx : j < i}) = k - 1
        later == {j \in idx : j > start}
        stop == IF later = {} THEN Len(text) + 1
                ELSE CHOOSE j \in later : \A l \in later : j <= l
    IN SubSeq(text, start + 1, stop - 1)

\* C10: for a rendered fixable vulnerability whose via list has a structured
\* report (a non-string value with a non-empty title), the section describes
\* the first such entry (title, severity, CVSS, URL) and has no 'Caused by'
\* line; if it has none, the section has the 'Caused by vulnerable
\* dependency' line followed by exactly one linked bullet per string entry of
\* via, and no bullet for a non-string entry.
C10_ViaRendering ==
    (formatPromise.state = "resolved" /\ FixableIndices(data) # {}) =>
        LET text == formatPromise.output
            Fix(v) == v.fixAvailable \in {"true", "object"}
            fixable == SelectSeq(data.vulnerabilities, Fix)
        IN /\ Cardinality(HeadingIndices(text)) = Len(fixable)
           /\ \A k \in 1..Len(fixable) :
                LET via == fixable[k].via
                    sec == SectionOf(text, k)
                    reports == SelectSeq(via, IsStructuredReport)
                    strings == SelectSeq(via, IsString)
                IN IF reports # <<>>
                   THEN /\ SelectSeq(sec, IsCausedBy) = <<>>
                        /\ SelectSeq(sec, IsBullet) = <<>>
                        /\ sec[1].a = <<reports[1].title>>
                        /\ sec[2].a[1] = reports[1].severity
                        /\ sec[2].a[3] =
                              (IF reports[1].score # 0
                               THEN <<" ", "(", "C", "V", "S", "S", " ">>
                                    \o NumStr(reports[1].score) \o <<")">>
                               ELSE <<>>)
                        /\ sec[3].a = <<reports[1].url, reports[1].url>>
                   ELSE /\ IsCausedBy(sec[1])
                        /\ Names(SelectSeq(sec, IsBullet)) =
                              [i \in 1..Len(strings) |-> strings[i].str]
                        /\ \A i \in 1..Len(strings) :
                              IsBullet(sec[1 + i])

====
